---- MODULE Spec2Model ----
(***************************************************************************)
(* A model of setup_real_ai.py, the provisioning script: the interpreter   *)
(* preflight, the optional conda environment, the seven steps of main()    *)
(* and the closing banner.  The machine the script runs on (interpreter    *)
(* version, operating system, whether torch is importable, the files of    *)
(* the working directory, the line waiting on standard input) is part of   *)
(* the state; what a subprocess does is drawn from the outcomes            *)
(* subprocess.run() can have.  Printing to the console is taken to succeed. *)
(***************************************************************************)
EXTENDS Integers, Sequences, FiniteSets, TLC

VARIABLES
    sys_version_info,   \* <<major, minor>> of the running interpreter
    platform_system,    \* what platform.system() returns
    torch,              \* "absent", "cpu" (importable, no CUDA) or "cuda"
    files,              \* helper scripts in the cwd and weight files in models/
    stdin,              \* the line waiting on standard input, or EOF
    pc,                 \* the statement main() has reached
    i,                  \* how many entries of steps the for loop has started
    k,                  \* how many items the running function's loop has done
    response,           \* create_conda_env's local: the normalised answer
    calls,              \* commands the function now running passed to run_command
    first_failed,       \* which of them was the first to return False, or 0
    last_call,          \* the latest run_command call and how it ended
    step_result,        \* how the latest started function ended
    started,            \* the stages begun so far, in order
    prompt_shown,       \* the conda prompt has been printed
    banner,             \* times the closing banner has been printed
    exit_status,        \* the process's exit status, once it has ended
    fetch               \* download attempts of the helper's latest run

vars == <<sys_version_info, platform_system, torch, files, stdin, pc, i, k,
          response, calls, first_failed, last_call, step_result, started,
          prompt_shown, banner, exit_status, fetch>>

-----------------------------------------------------------------------------
(* Bounds of the model *)

MaxMajor == 4
MaxMinor == 8
MaxInputLen == 2
MaxRc == 1

(* Program constants *)

MinMajor == 3
MinMinor == 8

Majors == (MinMajor - 1)..MaxMajor
Minors == (MinMinor - 1)..MaxMinor

Systems == {"Windows", "Linux", "Darwin", "FreeBSD"}

midas_packages ==
    <<"timm", "einops", "scipy", "matplotlib", "pillow", "transforms3d", "open3d">>

basic_deps ==
    <<"plyfile", "tqdm", "numpy", "scipy", "matplotlib", "imageio", "configargparse">>

additional_packages ==
    <<"ffmpeg-python", "imageio-ffmpeg", "scikit-image", "scikit-learn",
      "trimesh", "pymeshlab">>

conda_commands ==
    << <<"conda create -n insane_fusion python=3.9 -y">>,
       <<"conda activate insane_fusion">> >>

steps ==
    <<"install_pytorch", "install_opencv", "install_midas_dependencies",
      "install_gaussian_splatting_deps", "install_additional_packages",
      "setup_midas_models", "verify_installation">>

models == <<"midas_v21_small.pt", "midas_v21.pt">>

midas_helper == "download_midas.py"
test_helper == "test_installation.py"

PipInstall(package) == <<"pip install", package>>

opencv_command == <<"pip install", "opencv-python", "opencv-contrib-python">>

pytorch_command(system) ==
    IF system = "Windows"
    THEN <<"pip install", "torch", "torchvision", "torchaudio",
           "--index-url", "https://download.pytorch.org/whl/cu118">>
    ELSE <<"pip install", "torch", "torchvision", "torchaudio">>

colmap_commands(system) ==
    IF system = "Linux"
    THEN << <<"sudo apt-get update && sudo apt-get install -y colmap">> >>
    ELSE IF system = "Darwin"
    THEN << <<"brew install colmap">> >>
    ELSE << >>

-----------------------------------------------------------------------------
(* Standard input: a line is a sequence of characters; EOF is no line. *)

Alphabet == {"y", "Y", "n", " "}
Whitespace == {" "}
EOF == <<"EOF">>

Lines == UNION {[1..n -> Alphabet] : n \in 0..MaxInputLen}

lower_char(c) == IF c = "Y" THEN "y" ELSE c

lower(s) == [j \in 1..Len(s) |-> lower_char(s[j])]

RECURSIVE lstrip(_)
lstrip(s) == IF s # <<>> /\ Head(s) \in Whitespace THEN lstrip(Tail(s)) ELSE s

RECURSIVE rstrip(_)
rstrip(s) ==
    IF s # <<>> /\ s[Len(s)] \in Whitespace
    THEN rstrip(SubSeq(s, 1, Len(s) - 1))
    ELSE s

strip(s) == lstrip(rstrip(s))

normalize_strip_only(s) == strip(s)

normalize(s) == strip(lower(s))

NoResponse == <<"-">>

-----------------------------------------------------------------------------
(* subprocess.run(command, shell=True, check=True, capture_output=True):   *)
(* the shell ends with an exit status and some text on stderr, or the call *)
(* itself fails (the shell cannot be started, the captured output cannot   *)
(* be decoded) with an exception that is not CalledProcessError.           *)

Texts == {"", "not found"}

Exits ==
    {[kind |-> "exit", rc |-> 0, stderr |-> ""]}
    \cup [kind : {"exit"}, rc : 1..MaxRc, stderr : Texts]
LaunchError == [kind |-> "error", rc |-> -1, stderr |-> ""]
Outcomes == Exits \cup {LaunchError}

run_command(o) ==
    IF o.kind = "exit" /\ o.rc = 0
    THEN [raised |-> FALSE, ret |-> "True", line |-> <<"Success">>]
    ELSE IF o.kind = "exit"
    THEN [raised |-> FALSE, ret |-> "False", line |-> <<"Failed", o.stderr>>]
    ELSE [raised |-> TRUE, ret |-> "raised", line |-> <<>>]

Call(command, o) ==
    [command |-> command, outcome |-> o, raised |-> run_command(o).raised,
     ret |-> run_command(o).ret, line |-> run_command(o).line]

NoCall == [command |-> <<>>, outcome |-> LaunchError, raised |-> FALSE,
           ret |-> "-", line |-> <<>>]

(* The bookkeeping of a call: the command issued, the first False *)
Issue(c) ==
    /\ last_call' = c
    /\ calls' = Append(calls, c.command)
    /\ first_failed' = IF first_failed = 0 /\ c.ret = "False"
                       THEN Len(calls) + 1
                       ELSE first_failed

-----------------------------------------------------------------------------
(* check_python_version *)

check_python_version_minor_only(version) ==
    ~(version[1] < MinMajor \/ version[2] < MinMinor)

check_python_version(version) ==
    ~(version[1] < MinMajor \/ (version[1] = MinMajor /\ version[2] < MinMinor))

(* install_pytorch's probe: import torch, then torch.cuda.is_available() *)

torch_already_installed_importable(t) == t # "absent"

torch_already_installed(t) == t = "cuda"

(* The helper script's loop over the manifest, d[n] the n-th download's end *)

DownloadResults == {"ok", "partial", "error"}

RECURSIVE download_midas_models(_, _, _, _)
download_midas_models(n, fs, attempts, d) ==
    IF n > Len(models)
    THEN [files |-> fs, attempts |-> attempts]
    ELSE IF models[n] \in fs
    THEN download_midas_models(n + 1, fs, attempts, d)
    ELSE download_midas_models(
             n + 1,
             IF d[n] = "error" THEN fs ELSE fs \cup {models[n]},
             Append(attempts, models[n]),
             d)

ModelFiles == {models[n] : n \in 1..Len(models)}

-----------------------------------------------------------------------------
Init ==
    /\ sys_version_info \in Majors \X Minors
    /\ platform_system \in Systems
    /\ torch \in {"absent", "cpu", "cuda"}
    /\ files \in SUBSET ModelFiles
    /\ stdin \in Lines \cup {EOF}
    /\ pc = "main"
    /\ i = 0
    /\ k = 0
    /\ response = NoResponse
    /\ calls = <<>>
    /\ first_failed = 0
    /\ last_call = NoCall
    /\ step_result = "-"
    /\ started = <<>>
    /\ prompt_shown = FALSE
    /\ banner = 0
    /\ exit_status = -1
    /\ fetch = <<>>

Env == <<sys_version_info, platform_system>>

(* The process ends: sys.exit(1), or an exception nothing catches. *)
Exit(status) ==
    /\ pc' = "exit"
    /\ exit_status' = status

(* main() lines 272-276: the step returned or raised inside the try. *)
StepEnd_uncaught(result) ==
    IF result = "raised"
    THEN /\ Exit(1)
         /\ step_result' = result
    ELSE /\ pc' = "steps"
         /\ step_result' = result
         /\ UNCHANGED exit_status

StepEnd(result) ==
    /\ pc' = "steps"
    /\ step_result' = result
    /\ UNCHANGED exit_status

(* main() lines 249-254 *)
CheckPythonVersion ==
    /\ pc = "main"
    /\ started' = Append(started, "check_python_version")
    /\ IF check_python_version(sys_version_info)
       THEN pc' = "create_conda_env" /\ UNCHANGED exit_status
       ELSE Exit(1)
    /\ UNCHANGED <<Env, torch, files, stdin, i, k, response, calls, first_failed, last_call,
                   step_result, prompt_shown, banner, fetch>>

(* create_conda_env lines 229-232; an EOFError leaves main() uncaught *)
CreateCondaEnv ==
    /\ pc = "create_conda_env"
    /\ started' = Append(started, "create_conda_env")
    /\ prompt_shown' = TRUE
    /\ calls' = <<>>
    /\ first_failed' = 0
    /\ k' = 0
    /\ IF stdin = EOF
       THEN /\ Exit(1)
            /\ step_result' = "raised"
            /\ UNCHANGED <<stdin, response>>
       ELSE /\ response' = normalize(stdin)
            /\ stdin' = EOF
            /\ UNCHANGED exit_status
            /\ IF response' = <<"y">>
               THEN pc' = "conda_commands" /\ UNCHANGED step_result
               ELSE pc' = "steps" /\ step_result' = "None"
    /\ UNCHANGED <<Env, torch, files, i, last_call, banner, fetch>>

(* create_conda_env lines 241-245: one pass of the loop over commands *)
CondaCommand ==
    /\ pc = "conda_commands"
    /\ \E o \in Outcomes :
         LET c == Call(conda_commands[k + 1], o) IN
         /\ Issue(c)
         /\ k' = k + 1
         /\ IF c.raised
            THEN Exit(1) /\ step_result' = "raised"
            ELSE /\ UNCHANGED exit_status
                 /\ IF k + 1 = Len(conda_commands)
                    THEN pc' = "steps" /\ step_result' = "None"
                    ELSE pc' = "conda_commands" /\ UNCHANGED step_result
    /\ UNCHANGED <<Env, torch, files, stdin, i, response, started,
                   prompt_shown, banner, fetch>>

(* main() lines 270-273: the loop takes the next entry and calls it *)
NextStep ==
    /\ pc = "steps"
    /\ i < Len(steps)
    /\ i' = i + 1
    /\ pc' = steps[i + 1]
    /\ started' = Append(started, steps[i + 1])
    /\ calls' = <<>>
    /\ first_failed' = 0
    /\ k' = 0
    /\ response' = NoResponse
    /\ UNCHANGED <<Env, torch, files, stdin, last_call, step_result,
                   prompt_shown, banner, exit_status, fetch>>

(* What a successful "pip install torch ..." leaves behind *)
TorchAfter(c) ==
    IF c.ret = "True" THEN {"cpu", "cuda"} ELSE {torch}

(* install_pytorch lines 35-52 *)
InstallPytorch ==
    /\ pc = "install_pytorch"
    /\ IF torch_already_installed(torch)
       THEN /\ StepEnd("True")
            /\ UNCHANGED <<torch, calls, first_failed, last_call>>
       ELSE \E o \in Outcomes :
              LET c == Call(pytorch_command(platform_system), o) IN
              /\ Issue(c)
              /\ torch' \in TorchAfter(c)
              /\ StepEnd(c.ret)
    /\ UNCHANGED <<Env, files, stdin, i, k, response, started, prompt_shown,
                   banner, fetch>>

(* install_opencv lines 54-56 *)
InstallOpencv ==
    /\ pc = "install_opencv"
    /\ \E o \in Outcomes :
         LET c == Call(opencv_command, o) IN
         /\ Issue(c)
         /\ StepEnd(c.ret)
    /\ UNCHANGED <<Env, torch, files, stdin, i, k, response, started,
                   prompt_shown, banner, fetch>>

(* install_midas_dependencies lines 70-73: one pass of the loop *)
InstallMidasDependency ==
    /\ pc = "install_midas_dependencies"
    /\ \E o \in Outcomes :
         LET c == Call(PipInstall(midas_packages[k + 1]), o) IN
         /\ Issue(c)
         /\ k' = k + 1
         /\ IF c.raised
            THEN StepEnd("raised")
            ELSE IF c.ret = "False"
            THEN StepEnd("False")
            ELSE IF k + 1 = Len(midas_packages)
            THEN StepEnd("True")
            ELSE UNCHANGED <<pc, step_result, exit_status>>
    /\ UNCHANGED <<Env, torch, files, stdin, i, response, started,
                   prompt_shown, banner, fetch>>

(* install_gaussian_splatting_deps lines 90-91: one pass of the loop *)
InstallBasicDep ==
    /\ pc = "install_gaussian_splatting_deps"
    /\ \E o \in Outcomes :
         LET c == Call(PipInstall(basic_deps[k + 1]), o) IN
         /\ Issue(c)
         /\ k' = k + 1
         /\ IF c.raised
            THEN StepEnd("raised")
            ELSE IF k + 1 = Len(basic_deps)
            THEN pc' = "colmap" /\ UNCHANGED <<step_result, exit_status>>
            ELSE UNCHANGED <<pc, step_result, exit_status>>
    /\ UNCHANGED <<Env, torch, files, stdin, i, response, started,
                   prompt_shown, banner, fetch>>

(* install_gaussian_splatting_deps lines 94-102 *)
InstallColmap ==
    /\ pc = "colmap"
    /\ IF colmap_commands(platform_system) = << >>
       THEN /\ StepEnd("True")
            /\ UNCHANGED <<calls, first_failed, last_call>>
       ELSE \E o \in Outcomes :
              LET c == Call(colmap_commands(platform_system)[1], o) IN
              /\ Issue(c)
              /\ StepEnd(IF c.raised THEN "raised" ELSE "True")
    /\ UNCHANGED <<Env, torch, files, stdin, i, k, response, started,
                   prompt_shown, banner, fetch>>

(* install_additional_packages lines 115-116: one pass of the loop *)
InstallAdditionalPackage ==
    /\ pc = "install_additional_packages"
    /\ \E o \in Outcomes :
         LET c == Call(PipInstall(additional_packages[k + 1]), o) IN
         /\ Issue(c)
         /\ k' = k + 1
         /\ IF c.raised
            THEN StepEnd("raised")
            ELSE IF k + 1 = Len(additional_packages)
            THEN StepEnd("None")
            ELSE UNCHANGED <<pc, step_result, exit_status>>
    /\ UNCHANGED <<Env, torch, files, stdin, i, response, started,
                   prompt_shown, banner, fetch>>

(* setup_midas_models lines 122-159: mkdir, then the helper is written; *)
(* either can fail with an OSError                                       *)
WriteMidasHelper ==
    /\ pc = "setup_midas_models"
    /\ fetch' = <<>>
    /\ \/ /\ files' = files \cup {midas_helper}
          /\ pc' = "run_midas_helper"
          /\ UNCHANGED <<step_result, exit_status>>
       \/ /\ StepEnd("raised")
          /\ UNCHANGED files
    /\ UNCHANGED <<Env, torch, stdin, i, k, response, calls, first_failed, last_call,
                   started, prompt_shown, banner>>

(* The helper's run: "import torch" comes first, so without torch it ends *)
(* with a traceback and status 1 before the manifest is looked at.        *)
HelperExit ==
    IF torch = "absent"
    THEN [kind |-> "exit", rc |-> 1, stderr |-> "No module named 'torch'"]
    ELSE [kind |-> "exit", rc |-> 0, stderr |-> ""]

(* setup_midas_models line 161, with the helper script of lines 127-155 *)
RunMidasHelper ==
    /\ pc = "run_midas_helper"
    /\ \E o \in {HelperExit, LaunchError} :
       \E d \in [1..Len(models) -> DownloadResults] :
         LET c == Call(<<"python", midas_helper>>, o)
             r == IF o.kind = "exit" /\ o.rc = 0
                  THEN download_midas_models(1, files \ {midas_helper}, <<>>, d)
                  ELSE [files |-> files \ {midas_helper}, attempts |-> <<>>]
         IN
         /\ Issue(c)
         /\ files' = r.files \cup {midas_helper}
         /\ fetch' = r.attempts
         /\ IF c.raised
            THEN StepEnd("raised")
            ELSE pc' = "remove_midas_helper" /\ UNCHANGED <<step_result, exit_status>>
    /\ UNCHANGED <<Env, torch, stdin, i, k, response, started, prompt_shown,
                   banner>>

(* setup_midas_models lines 164-165 *)
RemoveMidasHelper ==
    /\ pc = "remove_midas_helper"
    /\ files' = files \ {midas_helper}
    /\ StepEnd("None")
    /\ UNCHANGED <<Env, torch, stdin, i, k, response, calls, first_failed, last_call,
                   started, prompt_shown, banner, fetch>>

(* verify_installation lines 169-219 *)
WriteTestHelper ==
    /\ pc = "verify_installation"
    /\ \/ /\ files' = files \cup {test_helper}
          /\ pc' = "run_test_helper"
          /\ UNCHANGED <<step_result, exit_status>>
       \/ /\ StepEnd("raised")
          /\ UNCHANGED files
    /\ UNCHANGED <<Env, torch, stdin, i, k, response, calls, first_failed, last_call,
                   started, prompt_shown, banner, fetch>>

(* verify_installation line 221 *)
RunTestHelper ==
    /\ pc = "run_test_helper"
    /\ \E o \in Outcomes :
         LET c == Call(<<"python", test_helper>>, o) IN
         /\ Issue(c)
         /\ IF c.raised
            THEN StepEnd("raised")
            ELSE pc' = "remove_test_helper" /\ UNCHANGED <<step_result, exit_status>>
    /\ UNCHANGED <<Env, torch, files, stdin, i, k, response, started,
                   prompt_shown, banner, fetch>>

(* verify_installation lines 224-225 *)
RemoveTestHelper ==
    /\ pc = "remove_test_helper"
    /\ files' = files \ {test_helper}
    /\ StepEnd("None")
    /\ UNCHANGED <<Env, torch, stdin, i, k, response, calls, first_failed, last_call,
                   started, prompt_shown, banner, fetch>>

(* main() lines 278-289: the loop is over *)
Summary ==
    /\ pc = "steps"
    /\ i = Len(steps)
    /\ banner' = banner + 1
    /\ pc' = "done"
    /\ exit_status' = 0
    /\ UNCHANGED <<Env, torch, files, stdin, i, k, response, calls, first_failed, last_call,
                   step_result, started, prompt_shown, fetch>>

Next ==
    \/ CheckPythonVersion
    \/ CreateCondaEnv
    \/ CondaCommand
    \/ NextStep
    \/ InstallPytorch
    \/ InstallOpencv
    \/ InstallMidasDependency
    \/ InstallBasicDep
    \/ InstallColmap
    \/ InstallAdditionalPackage
    \/ WriteMidasHelper
    \/ RunMidasHelper
    \/ RemoveMidasHelper
    \/ WriteTestHelper
    \/ RunTestHelper
    \/ RemoveTestHelper
    \/ Summary

Spec == Init /\ [][Next]_vars

-----------------------------------------------------------------------------
(* Vocabulary of the properties *)

Stages == <<"check_python_version", "create_conda_env">> \o steps

Terminated == pc \in {"done", "exit"}

(* (major, minor) >= (3, 8), as tuples compare *)
AtLeast38 ==
    \/ sys_version_info[1] > 3
    \/ sys_version_info[1] = 3 /\ sys_version_info[2] >= 8

(* Step n of the loop has ended and the loop has not moved on *)
StepOver(n) == pc = "steps" /\ i = n

IsPrefix(s, t) == Len(s) <= Len(t) /\ s = SubSeq(t, 1, Len(s))

Count(s, x) == Cardinality({j \in 1..Len(s) : s[j] = x})

(* A line that is one "y" or "Y" with nothing but blanks around it *)
Affirmative(line) ==
    \E j \in 1..Len(line) :
        /\ line[j] \in {"y", "Y"}
        /\ \A m \in (1..Len(line)) \ {j} : line[m] = " "

-----------------------------------------------------------------------------
(* C1: once the loop over steps has begun, no outcome of a step (a return   *)
(* with any value, a failed command inside it, an exception) ends the run   *)
(* or the loop: a step that is over is followed by the next one, and a run  *)
(* that is over has invoked all seven step functions, in order.             *)
C1_AllStepsInvoked ==
    /\ Len(steps) = 7
    /\ i >= 1 => pc # "exit"
    /\ i >= 1 => SubSeq(started, 3, Len(started)) = SubSeq(steps, 1, i)
    /\ \A n \in 1..6 : StepOver(n) => ENABLED NextStep
    /\ pc = "done" => i = 7 /\ started = Stages

(* The sixth step raised and the seventh has been started all the same *)
C1_Witness ==
    /\ pc = "verify_installation"
    /\ i = 7
    /\ step_result = "raised"

(* C4: below (3, 8) the process halts with a non-zero status before the     *)
(* prompt, before any run_command call and before any file is written; from *)
(* (3, 8) on, any major above 3 included, main() goes on to the environment *)
(* creation.                                                                *)
C4_Preflight ==
    /\ ~AtLeast38 =>
          /\ pc \in {"main", "exit"}
          /\ pc = "exit" => exit_status > 0
          /\ ~prompt_shown
          /\ calls = <<>> /\ last_call = NoCall
          /\ files \subseteq ModelFiles /\ fetch = <<>>
    /\ AtLeast38 /\ pc # "main" => pc = "create_conda_env" \/ prompt_shown

(* Python 3.7 has been turned away *)
C4_Witness ==
    /\ pc = "exit"
    /\ sys_version_info = <<3, 7>>
    /\ exit_status = 1

(* C6 as claimed, its first sentence: every line other than exactly "y" is  *)
(* a "no", and create_conda_env returns without having issued a command.    *)
C6_ExactYOnly ==
    [][pc = "create_conda_env" /\ stdin # EOF /\ stdin # <<"y">>
          => pc' = "steps" /\ calls' = <<>>]_vars

(* C6 amended: the line is lower-cased and stripped before it is compared.  *)
(* A line that is not one y or Y between blanks issues no command; one that *)
(* is issues the creation command, and then the activation command whether  *)
(* the creation returned True or False; the only thing that ends the        *)
(* function between the two is an exception leaving run_command.            *)
C6_NormalisedAnswer ==
    /\ [][pc = "create_conda_env" /\ stdin # EOF
            => /\ calls' = <<>>
               /\ IF Affirmative(stdin)
                  THEN pc' = "conda_commands"
                  ELSE pc' = "steps"]_vars
    /\ [](pc = "conda_commands" => k < 2 /\ calls = SubSeq(conda_commands, 1, k))
    /\ [](StepOver(0) => calls \in {<<>>, conda_commands})
    /\ [](pc = "exit" /\ prompt_shown /\ calls # <<>>
            => last_call.raised /\ IsPrefix(calls, conda_commands))

(* The creation command failed and the activation command was issued *)
C6_Witness ==
    /\ StepOver(0)
    /\ calls = conda_commands
    /\ first_failed = 1

(* C8 as claimed: an importable torch means no install command and a        *)
(* success report, a failed import exactly one command; and no other        *)
(* installer step ends before its last command.                             *)
C8_ImportProbeOnly ==
    [][/\ pc = "install_pytorch" =>
            IF torch # "absent"
            THEN calls' = <<>> /\ step_result' = "True"
            ELSE Len(calls') = 1
        /\ pc = "install_midas_dependencies" /\ pc' = "steps"
              /\ step_result' # "raised"
            => Len(calls') = 7]_vars

(* C8 amended: install_pytorch skips its command only when torch is         *)
(* importable and CUDA is available; with torch missing or without CUDA it  *)
(* issues exactly one command, with the CUDA index on Windows and without   *)
(* it everywhere else.  Of the other installer steps, install_opencv,       *)
(* install_gaussian_splatting_deps and install_additional_packages return   *)
(* only after their last command; install_midas_dependencies returns after  *)
(* its last command or after the first that returned False.                 *)
C8_CudaProbe ==
    /\ [][pc = "install_pytorch" =>
            IF torch = "cuda"
            THEN calls' = <<>> /\ step_result' = "True" /\ pc' = "steps"
            ELSE /\ Len(calls') = 1
                 /\ "--index-url" \in {calls'[1][j] : j \in 1..Len(calls'[1])}
                        <=> platform_system = "Windows"]_vars
    /\ [](StepOver(2) /\ step_result # "raised" => Len(calls) = 1)
    /\ [](StepOver(3) /\ step_result # "raised" =>
            \/ step_result = "True" /\ Len(calls) = 7 /\ first_failed = 0
            \/ step_result = "False" /\ first_failed = Len(calls))
    /\ [](StepOver(4) /\ step_result # "raised" =>
            Len(calls) = 7 + Len(colmap_commands(platform_system)))
    /\ [](StepOver(5) /\ step_result # "raised" => Len(calls) = 6)

(* torch was importable without CUDA and the install command was issued *)
C8_Witness ==
    /\ StepOver(1)
    /\ torch = "cpu"
    /\ Len(calls) = 1
    /\ step_result = "False"

(* C2 as claimed: whatever the results of the install commands, a package   *)
(* group's step returns with every package of the group passed to           *)
(* run_command once, in the listed order.                                   *)
C2_EveryPackageOnce ==
    pc = "steps" /\ step_result # "raised" =>
        /\ i = 2 => calls = <<opencv_command>>
        /\ i = 3 => calls = [j \in 1..7 |-> PipInstall(midas_packages[j])]
        /\ i = 4 => SubSeq(calls, 1, 7) = [j \in 1..7 |-> PipInstall(basic_deps[j])]
        /\ i = 5 => calls = [j \in 1..6 |-> PipInstall(additional_packages[j])]

(* C3 as claimed: when the helper command has been run, a manifest entry    *)
(* that was present has no download attempt and one that was absent has     *)
(* exactly one, torch importable in the helper or not.                      *)
C3_FetchEachAbsentOnce ==
    [][pc = "run_midas_helper" /\ pc' = "remove_midas_helper" =>
          \A m \in ModelFiles :
              Count(fetch', m) = IF m \in files THEN 0 ELSE 1]_vars

(* C5 as claimed: a run that passed the preflight ends with status 0 *)
C5_ExitZeroAfterPreflight ==
    Terminated /\ AtLeast38 => exit_status = 0

(* C7 as claimed: run_command never raises; it returns True exactly on exit *)
(* status zero and False otherwise, with the captured stderr in the line it *)
(* logs.                                                                    *)
C7_NeverRaises ==
    last_call # NoCall =>
        /\ ~last_call.raised
        /\ last_call.ret \in {"True", "False"}
        /\ last_call.ret = "True" <=>
              last_call.outcome.kind = "exit" /\ last_call.outcome.rc = 0
        /\ last_call.ret = "False" =>
              last_call.line = <<"Failed", last_call.outcome.stderr>>

(* C9 as claimed: a helper script exists only between its creation and the  *)
(* end of its step, however the step ends.                                  *)
C9_HelpersTransient ==
    /\ midas_helper \in files =>
          pc \in {"run_midas_helper", "remove_midas_helper"}
    /\ test_helper \in files =>
          pc \in {"run_test_helper", "remove_test_helper"}

(* C10 as claimed: the stages begin in the fixed order, and every run that  *)
(* passed the preflight goes through all of them and prints the closing     *)
(* banner exactly once, after the seventh step.                             *)
C10_OrderAndBanner ==
    /\ IsPrefix(started, Stages)
    /\ banner > 0 => banner = 1 /\ pc = "done" /\ i = 7
    /\ Terminated /\ AtLeast38 => banner = 1 /\ started = Stages

====
